---- MODULE Spec2Model ----
(***************************************************************************)
(* Auction-draft coordinator of whwnsgml48/nba_draft.                      *)
(*                                                                         *)
(* State: the two files under data/ (players.csv, state.json), the         *)
(* DataManager object held by the AuctionManager, the DataManager object   *)
(* held by the Streamlit session (the same object until the settings       *)
(* page's data reset replaces the session's one), and the AuctionManager's *)
(* bid history.  One action per command of the command surface and per     *)
(* settings-page handler.  Amounts are scaled down (a budget of 200        *)
(* becomes DefaultTeamBudget, 12 teams become MaxTeams).                   *)
(***************************************************************************)
EXTENDS Integers, Sequences, FiniteSets, TLC

VARIABLES
    players_file,   \* data/players.csv: the pool, a sequence of rows (<<>>: no/empty file)
    state_file,     \* data/state.json: NoFile or <<the persisted record>>
    adm,            \* the DataManager object the AuctionManager holds
    sdm,            \* the DataManager object st.session_state.data_manager holds
    shared,         \* TRUE while adm and sdm are one and the same object
    bid_history,    \* AuctionManager.bid_history
    last,           \* the last command and what it returned
    admin,          \* number of administrative operations done so far
    faults          \* number of injected write failures / crashes so far

vars == <<players_file, state_file, adm, sdm, shared, bid_history, last, admin, faults>>

-----------------------------------------------------------------------------
(* Bounds of the model *)
MaxTeams == 2            \* league size: default and largest total_teams
DefaultTeamBudget == 2   \* per-team starting budget
NumPlayers == 2          \* size of a full pool snapshot
MaxIncrement == 2        \* largest configurable min_bid_increment
MaxAdmin == 2            \* administrative operations per run
MaxFaults == 1           \* injected write failures / crashes per run
RichBudget == 4          \* per-team budget of the league of SpecDraft (two purchases)
SmallRoster == 1         \* max_players_per_team of the league of SpecDraft
LadderBudget == 11       \* per-team budget of the league of SpecLadder (two ladder rungs)

(* Program constants *)
OpeningBid == 1
AmMinBidIncrement == 1
DefaultMinBidIncrement == 1
DefaultMaxPlayers == 15

-----------------------------------------------------------------------------
(* Value spaces *)
None == "None"
NoFile == <<>>

PlayerNameAt(i) == <<"P1", "P2", "P3", "P4">>[i]
PlayerNames == {PlayerNameAt(i) : i \in 1..NumPlayers}
PlayerInputs == PlayerNames \cup {"Nobody"}

team_names == <<"T1", "T2">>
FallbackName(i) == <<"Team 1", "Team 2", "Team 3", "Team 4">>[i]
TeamNameAt(i) == IF i <= Len(team_names) THEN team_names[i] ELSE FallbackName(i)

NameInputs == {TeamNameAt(i) : i \in 1..MaxTeams} \cup {"", "X"}
BidAmounts == 1..(DefaultTeamBudget + 1)
BudgetChoices == (DefaultTeamBudget - 1)..DefaultTeamBudget
TeamCountChoices == 1..MaxTeams
IncrementChoices == 1..MaxIncrement
MaxPlayersChoices == {DefaultMaxPlayers}

-----------------------------------------------------------------------------
(* Data classes *)
NewPlayerRow(n) ==
    [name |-> n, draft_status |-> "available", draft_price |-> 0, draft_team |-> ""]

NewAuctionState ==
    [current_player |-> None, highest_bid |-> 0, highest_bidder |-> "", is_active |-> FALSE]

NewLeagueSettings ==
    [team_budget |-> DefaultTeamBudget,
     min_bid_increment |-> DefaultMinBidIncrement,
     max_players_per_team |-> DefaultMaxPlayers,
     total_teams |-> MaxTeams]

NewTeam(n, budget) == [key |-> n, name |-> n, budget_left |-> budget, players |-> <<>>]

add_player_m(team, pname, price) ==
    [team EXCEPT !.players = Append(@, [name |-> pname, price |-> price]),
                 !.budget_left = @ + price]

add_player(team, pname, price) ==
    [team EXCEPT !.players = Append(@, [name |-> pname, price |-> price]),
                 !.budget_left = @ - price]

Keys(teams) == {teams[i].key : i \in 1..Len(teams)}
IndexOf(teams, k) == CHOOSE i \in 1..Len(teams) : teams[i].key = k
TeamOf(teams, k) == teams[IndexOf(teams, k)]

_initialize_teams(settings, budget) ==
    [i \in 1..settings.total_teams |-> NewTeam(TeamNameAt(i), budget)]

-----------------------------------------------------------------------------
(* Persistence *)
save_state(d) ==
    [league_settings |->
        [team_budget |-> d.league_settings.team_budget,
         min_bid_increment |-> d.league_settings.min_bid_increment,
         max_players_per_team |-> d.league_settings.max_players_per_team,
         total_teams |-> d.league_settings.total_teams],
     teams |->
        [i \in 1..Len(d.teams) |->
            [key |-> d.teams[i].key,
             name |-> d.teams[i].name,
             budget_left |-> d.teams[i].budget_left,
             players |-> d.teams[i].players]],
     auction_state |->
        [current_player |-> d.auction_state.current_player,
         highest_bid |-> d.auction_state.highest_bid,
         highest_bidder |-> d.auction_state.highest_bidder,
         is_active |-> d.auction_state.is_active]]

load_state_m(d, state_json) ==
    IF state_json = NoFile THEN d
    ELSE LET file == state_json[1] IN
         [league_settings |-> file.league_settings,
          teams |->
            [i \in 1..Len(file.teams) |->
                [key |-> file.teams[i].key,
                 name |-> file.teams[i].name,
                 budget_left |-> file.teams[i].budget_left,
                 players |-> <<>>]],
          auction_state |-> file.auction_state]

load_state(d, state_json) ==
    IF state_json = NoFile THEN d
    ELSE LET file == state_json[1] IN
         [league_settings |->
            [team_budget |-> file.league_settings.team_budget,
             min_bid_increment |-> file.league_settings.min_bid_increment,
             max_players_per_team |-> file.league_settings.max_players_per_team,
             total_teams |-> file.league_settings.total_teams],
          teams |->
            [i \in 1..Len(file.teams) |->
                [key |-> file.teams[i].key,
                 name |-> file.teams[i].name,
                 budget_left |-> file.teams[i].budget_left,
                 players |-> file.teams[i].players]],
          auction_state |->
            [current_player |-> file.auction_state.current_player,
             highest_bid |-> file.auction_state.highest_bid,
             highest_bidder |-> file.auction_state.highest_bidder,
             is_active |-> file.auction_state.is_active]]

Written(d) == <<save_state(d)>>

NewDataManager(state_json) ==
    IF state_json = NoFile
    THEN [league_settings |-> NewLeagueSettings,
          teams |-> _initialize_teams(NewLeagueSettings, NewLeagueSettings.team_budget),
          auction_state |-> NewAuctionState]
    ELSE load_state([league_settings |-> NewLeagueSettings,
                     teams |-> <<>>,
                     auction_state |-> NewAuctionState], state_json)

FullSnapshot == [i \in 1..NumPlayers |-> NewPlayerRow(PlayerNameAt(i))]

-----------------------------------------------------------------------------
(* The program state as one value, so that a handler is a function of it *)
Cur ==
    [players_file |-> players_file, state_file |-> state_file,
     adm |-> adm, sdm |-> sdm, shared |-> shared, bid_history |-> bid_history]

(* A mutation of the AuctionManager's DataManager is seen through the session's
   reference exactly while both refer to the same object, and conversely. *)
am_set(S, d) == [S EXCEPT !.adm = d, !.sdm = IF S.shared THEN d ELSE @]
session_set(S, d) == [S EXCEPT !.sdm = d, !.adm = IF S.shared THEN d ELSE @]

write_state(S, d, write_ok) ==
    IF write_ok THEN [S EXCEPT !.state_file = Written(d)] ELSE S

save_players(S, df, write_ok) ==
    IF write_ok THEN [S EXCEPT !.players_file = df] ELSE S

Returned(S, ok, msg) == [st |-> S, ok |-> ok, msg |-> msg, info |-> <<>>]
Result(op, r) == [op |-> op, ok |-> r.ok, msg |-> r.msg, info |-> r.info]

Init ==
    /\ players_file \in {<<>>, FullSnapshot}
    /\ state_file = NoFile
    /\ adm = NewDataManager(NoFile)
    /\ sdm = adm
    /\ shared = TRUE
    /\ bid_history = <<>>
    /\ last = [op |-> "init", ok |-> TRUE, msg |-> "", info |-> <<>>]
    /\ admin = 0
    /\ faults = 0

Apply(S) ==
    /\ players_file' = S.players_file
    /\ state_file' = S.state_file
    /\ adm' = S.adm
    /\ sdm' = S.sdm
    /\ shared' = S.shared
    /\ bid_history' = S.bid_history

-----------------------------------------------------------------------------
(* DataManager.get_available_players, AuctionManager.get_player_info *)
get_available_players_m(pool) == pool

get_available_players(pool) ==
    SelectSeq(pool, LAMBDA r : r.draft_status = "available")

get_player_info_m(pool, player_name) ==
    \E i \in 1..Len(pool) : pool[i].name = player_name

get_player_info(pool, player_name) ==
    \E i \in 1..Len(get_available_players(pool)) :
        get_available_players(pool)[i].name = player_name

(* DataManager.start_auction *)
start_auction_m(d, player_name) ==
    [d EXCEPT !.auction_state =
        [current_player |-> player_name, highest_bid |-> 0,
         highest_bidder |-> "", is_active |-> TRUE]]

start_auction(d, player_name) ==
    [d EXCEPT !.auction_state =
        [current_player |-> player_name, highest_bid |-> OpeningBid,
         highest_bidder |-> "", is_active |-> TRUE]]

auction_running_m(d) == FALSE

auction_running(d) == d.auction_state.is_active

(* AuctionManager.start_player_auction *)
start_player_auction(S, player_name) ==
    IF auction_running(S.adm) THEN Returned(S, FALSE, "AlreadyActive")
    ELSE IF ~get_player_info(S.players_file, player_name)
    THEN Returned(S, FALSE, "UnknownOrUnavailablePlayer")
    ELSE LET d == start_auction(S.adm, player_name)
             S1 == write_state(am_set(S, d), d, TRUE)
         IN Returned([S1 EXCEPT !.bid_history = <<>>], TRUE, "OK")

StartAuction(player_name) ==
    /\ Apply(start_player_auction(Cur, player_name).st)
    /\ last' = Result("start", start_player_auction(Cur, player_name))
    /\ UNCHANGED <<admin, faults>>

-----------------------------------------------------------------------------
(* DataManager.place_bid: the state machine's own check, then the mutation *)
dm_bid_accepted(d, team_name, amount) ==
    /\ d.auction_state.is_active
    /\ team_name \in Keys(d.teams)
    /\ ~(TeamOf(d.teams, team_name).budget_left < amount)
    /\ ~(amount <= d.auction_state.highest_bid)

dm_place_bid(d, team_name, amount) ==
    [d EXCEPT !.auction_state.highest_bid = amount,
              !.auction_state.highest_bidder = team_name]

budget_short_m(d, team_name, amount) ==
    TeamOf(d.teams, team_name).budget_left <= amount

budget_short(d, team_name, amount) ==
    TeamOf(d.teams, team_name).budget_left < amount

min_bid_m(d) == d.auction_state.highest_bid

min_bid(d) == d.auction_state.highest_bid + AmMinBidIncrement

(* AuctionManager.place_bid *)
place_bid(S, team_name, amount) ==
    IF ~S.adm.auction_state.is_active THEN Returned(S, FALSE, "NoActiveAuction")
    ELSE IF team_name \notin Keys(S.adm.teams) THEN Returned(S, FALSE, "UnknownTeam")
    ELSE IF budget_short(S.adm, team_name, amount)
    THEN Returned(S, FALSE, "InsufficientBudget")
    ELSE IF amount < min_bid(S.adm) THEN Returned(S, FALSE, "BidTooLow")
    ELSE IF ~dm_bid_accepted(S.adm, team_name, amount)
    THEN Returned(S, FALSE, "BidFailed")
    ELSE LET d == dm_place_bid(S.adm, team_name, amount)
             S1 == write_state(am_set(S, d), d, TRUE)
         IN Returned([S1 EXCEPT !.bid_history =
                         Append(@, [team_name |-> team_name, amount |-> amount])],
                     TRUE, "OK")

PlaceBid(team_name, amount) ==
    /\ Apply(place_bid(Cur, team_name, amount).st)
    /\ last' = Result("bid", place_bid(Cur, team_name, amount))
    /\ UNCHANGED <<admin, faults>>

-----------------------------------------------------------------------------
(* AuctionManager.get_current_auction_info, get_team_budgets, get_suggested_bids *)
get_current_auction_info(d) ==
    IF ~d.auction_state.is_active
    THEN [is_active |-> FALSE, current_player |-> None, highest_bid |-> 0,
          highest_bidder |-> "", next_min_bid |-> 1]
    ELSE [is_active |-> d.auction_state.is_active,
          current_player |-> d.auction_state.current_player,
          highest_bid |-> d.auction_state.highest_bid,
          highest_bidder |-> d.auction_state.highest_bidder,
          next_min_bid |-> min_bid(d)]

get_team_budgets(d) == {d.teams[i].budget_left : i \in 1..Len(d.teams)}

SuggestedIncrements == <<5, 10, 15, 20>>

(* suggestions.append(suggested) unless it is already in the list *)
append_new(suggestions, suggested) ==
    IF \E i \in 1..Len(suggestions) : suggestions[i] = suggested
    THEN suggestions
    ELSE Append(suggestions, suggested)

RECURSIVE add_increments(_, _, _)
add_increments(suggestions, current_bid, i) ==
    IF i > Len(SuggestedIncrements) THEN suggestions
    ELSE add_increments(append_new(suggestions, current_bid + SuggestedIncrements[i]),
                        current_bid, i + 1)

max_budget(d) ==
    CHOOSE b \in get_team_budgets(d) : \A c \in get_team_budgets(d) : c <= b

get_suggested_bids_m(d) ==
    IF ~d.auction_state.is_active THEN [raised |-> FALSE, bids |-> <<>>]
    ELSE IF get_team_budgets(d) = {} THEN [raised |-> TRUE, bids |-> <<>>]
    ELSE [raised |-> FALSE,
          bids |-> add_increments(<<min_bid(d)>>, d.auction_state.highest_bid, 1)]

(* max() of no team budget raises ValueError *)
get_suggested_bids(d) ==
    IF ~d.auction_state.is_active THEN [raised |-> FALSE, bids |-> <<>>]
    ELSE IF get_team_budgets(d) = {} THEN [raised |-> TRUE, bids |-> <<>>]
    ELSE LET suggestions ==
                 add_increments(<<min_bid(d)>>, d.auction_state.highest_bid, 1)
             within(bid) == bid <= max_budget(d)
         IN [raised |-> FALSE, bids |-> SelectSeq(suggestions, within)]

-----------------------------------------------------------------------------
(* AuctionManager.cancel_current_auction *)
reset_auction_m(d) == [d EXCEPT !.auction_state.is_active = FALSE]

reset_auction(d) == [d EXCEPT !.auction_state = NewAuctionState]

cancel_current_auction_m(S) ==
    IF ~S.adm.auction_state.is_active THEN Returned(S, FALSE, "NoActiveAuction")
    ELSE LET d == reset_auction([S.adm EXCEPT !.teams =
                      _initialize_teams(S.adm.league_settings,
                                        S.adm.league_settings.team_budget)])
             S1 == write_state(am_set(S, d), d, TRUE)
         IN Returned([S1 EXCEPT !.bid_history = <<>>], TRUE, "OK")

cancel_current_auction(S) ==
    IF ~S.adm.auction_state.is_active THEN Returned(S, FALSE, "NoActiveAuction")
    ELSE LET d == reset_auction(S.adm)
             S1 == write_state(am_set(S, d), d, TRUE)
         IN Returned([S1 EXCEPT !.bid_history = <<>>], TRUE, "OK")

CancelAuction ==
    /\ Apply(cancel_current_auction(Cur).st)
    /\ last' = Result("cancel", cancel_current_auction(Cur))
    /\ UNCHANGED <<admin, faults>>

-----------------------------------------------------------------------------
(* DataManager.finalize_auction *)
PlayerInPool(pool, player_name) ==
    \E i \in 1..Len(pool) : pool[i].name = player_name

PlayerIdx(pool, player_name) ==
    CHOOSE i \in 1..Len(pool) :
        /\ pool[i].name = player_name
        /\ \A j \in 1..(i - 1) : pool[j].name # player_name

mark_drafted(pool, player_name, price, team_name) ==
    [pool EXCEPT ![PlayerIdx(pool, player_name)] =
        [@ EXCEPT !.draft_status = "drafted",
                  !.draft_price = price,
                  !.draft_team = team_name]]

charge_team_m(d) ==
    [d EXCEPT !.teams[IndexOf(d.teams, d.auction_state.highest_bidder)].players =
        Append(@, [name |-> d.auction_state.current_player,
                   price |-> d.auction_state.highest_bid])]

charge_team(d) ==
    [d EXCEPT !.teams[IndexOf(d.teams, d.auction_state.highest_bidder)] =
        add_player(@, d.auction_state.current_player, d.auction_state.highest_bid)]

SaleOf(d) ==
    <<d.auction_state.current_player, d.auction_state.highest_bidder,
      d.auction_state.highest_bid>>

(* The outcomes of DataManager.finalize_auction: refused (False), the pool has
   no row of the player (returns True all the same), the winning team is no key
   of teams (KeyError out of the handler, nothing written), or the sale. *)
finalize_auction(S, pool_ok, state_ok) ==
    LET d == S.adm
        a == d.auction_state
    IN
    IF ~a.is_active \/ a.highest_bidder = "" THEN Returned(S, FALSE, "Refused")
    ELSE IF ~PlayerInPool(S.players_file, a.current_player)
    THEN LET d1 == reset_auction(d)
         IN Returned(write_state(am_set(S, d1), d1, state_ok), TRUE, "OK")
    ELSE IF a.highest_bidder \notin Keys(d.teams) THEN Returned(S, FALSE, "KeyError")
    ELSE LET df == mark_drafted(S.players_file, a.current_player, a.highest_bid,
                                a.highest_bidder)
             d1 == reset_auction(charge_team(d))
             S1 == save_players(am_set(S, d1), df, pool_ok)
         IN [st |-> write_state(S1, d1, state_ok), ok |-> TRUE, msg |-> "OK",
             info |-> SaleOf(d)]

(* AuctionManager.finalize_current_auction *)
finalize_current_auction(S, pool_ok, state_ok) ==
    IF ~S.adm.auction_state.is_active THEN Returned(S, FALSE, "NoActiveAuction")
    ELSE IF S.adm.auction_state.highest_bidder = "" THEN Returned(S, FALSE, "NoBidder")
    ELSE finalize_auction(S, pool_ok, state_ok)

FinalizeAuction ==
    /\ Apply(finalize_current_auction(Cur, TRUE, TRUE).st)
    /\ last' = Result("finalize", finalize_current_auction(Cur, TRUE, TRUE))
    /\ UNCHANGED <<admin, faults>>

(* A write of save_players or save_state raises inside the handler: the handler
   prints the error and carries on (data_manager.py:123, :180). *)
FinalizeWriteFails ==
    /\ faults < MaxFaults
    /\ finalize_current_auction(Cur, TRUE, TRUE).ok
    /\ \E pool_ok, state_ok \in BOOLEAN :
          /\ ~(pool_ok /\ state_ok)
          /\ Apply(finalize_current_auction(Cur, pool_ok, state_ok).st)
          /\ last' = Result("finalize", finalize_current_auction(Cur, pool_ok, state_ok))
    /\ faults' = faults + 1
    /\ UNCHANGED admin

(* The process dies between save_players (line 244) and save_state (line 248)
   and is started again: both objects are rebuilt from the files. *)
FinalizeCrash ==
    /\ faults < MaxFaults
    /\ finalize_current_auction(Cur, TRUE, TRUE).ok
    /\ finalize_current_auction(Cur, TRUE, TRUE).info # <<>>
    /\ players_file' = finalize_current_auction(Cur, TRUE, TRUE).st.players_file
    /\ adm' = NewDataManager(state_file)
    /\ sdm' = NewDataManager(state_file)
    /\ shared' = TRUE
    /\ bid_history' = <<>>
    /\ last' = [op |-> "finalize", ok |-> FALSE, msg |-> "Crash", info |-> SaleOf(adm)]
    /\ faults' = faults + 1
    /\ UNCHANGED <<state_file, admin>>

-----------------------------------------------------------------------------
(* DataManager.update_team_name, called on the session's DataManager *)
RemoveKey(teams, k) == SelectSeq(teams, LAMBDA t : t.key # k)

(* An empty draft_team is read back from the CSV as a missing value, which
   equals no name. *)
rename_pool(pool, old_name, new_name) ==
    [i \in 1..Len(pool) |->
        IF pool[i].draft_team # "" /\ pool[i].draft_team = old_name
        THEN [pool[i] EXCEPT !.draft_team = new_name]
        ELSE pool[i]]

rename_bidder(a, old_name, new_name) ==
    IF a.highest_bidder = old_name THEN [a EXCEPT !.highest_bidder = new_name] ELSE a

rename_in_ledger_m(d, old_name, new_name) ==
    [d EXCEPT
        !.teams = Append(RemoveKey(d.teams, old_name),
                         [TeamOf(d.teams, old_name) EXCEPT !.key = new_name]),
        !.auction_state = rename_bidder(@, old_name, new_name)]

rename_in_ledger(d, old_name, new_name) ==
    [d EXCEPT
        !.teams = Append(RemoveKey(d.teams, old_name),
                         [TeamOf(d.teams, old_name) EXCEPT !.key = new_name,
                                                           !.name = new_name]),
        !.auction_state = rename_bidder(@, old_name, new_name)]

update_team_name_m(S, old_name, new_name) ==
    IF old_name \notin Keys(S.sdm.teams)
    THEN Returned(S, FALSE, "NotFoundOrCollision")
    ELSE LET d == rename_in_ledger(S.sdm, old_name, new_name)
             S1 == IF S.players_file = <<>>
                   THEN session_set(S, d)
                   ELSE save_players(session_set(S, d),
                                     rename_pool(S.players_file, old_name, new_name), TRUE)
         IN Returned(write_state(S1, d, TRUE), TRUE, "OK")

update_team_name(S, old_name, new_name) ==
    IF old_name \notin Keys(S.sdm.teams) \/ new_name \in Keys(S.sdm.teams)
    THEN Returned(S, FALSE, "NotFoundOrCollision")
    ELSE LET d == rename_in_ledger(S.sdm, old_name, new_name)
             S1 == IF S.players_file = <<>>
                   THEN session_set(S, d)
                   ELSE save_players(session_set(S, d),
                                     rename_pool(S.players_file, old_name, new_name), TRUE)
         IN Returned(write_state(S1, d, TRUE), TRUE, "OK")

(* The rename form of app.py: the team is picked among the session's team names
   and the handler is called only for a non-empty name that differs from the
   picked one and is no team name yet. *)
team_settings_section_m(teams, selected_team, new_name) ==
    /\ selected_team \in Keys(teams)
    /\ new_name # selected_team
    /\ new_name \notin Keys(teams)

team_settings_section(teams, selected_team, new_name) ==
    /\ selected_team \in Keys(teams)
    /\ new_name # "" /\ new_name # selected_team
    /\ new_name \notin Keys(teams)

RenameTeam(old_name, new_name) ==
    /\ admin < MaxAdmin
    /\ team_settings_section(sdm.teams, old_name, new_name)
    /\ Apply(update_team_name(Cur, old_name, new_name).st)
    /\ last' = Result("rename", update_team_name(Cur, old_name, new_name))
    /\ admin' = IF update_team_name(Cur, old_name, new_name).ok THEN admin + 1 ELSE admin
    /\ UNCHANGED faults

-----------------------------------------------------------------------------
(* DataManager.update_league_settings, called on the session's DataManager *)
SettingKeys == {"team_budget", "min_bid_increment", "max_players_per_team", "total_teams"}

KwargsInputs ==
    {[present |-> K, vals |-> v] :
        K \in {SettingKeys} \cup {{k} : k \in SettingKeys},
        v \in [team_budget : BudgetChoices,
               min_bid_increment : IncrementChoices,
               max_players_per_team : MaxPlayersChoices,
               total_teams : TeamCountChoices]}

set_attrs(settings, kwargs) ==
    [k \in SettingKeys |->
        IF k \in kwargs.present THEN kwargs.vals[k] ELSE settings[k]]

resize_teams(d, settings) ==
    LET fresh == _initialize_teams(settings, settings.team_budget) IN
    [i \in 1..Len(fresh) |->
        IF fresh[i].key \in Keys(d.teams)
        THEN [fresh[i] EXCEPT
                !.budget_left = TeamOf(d.teams, fresh[i].key).budget_left,
                !.players = TeamOf(d.teams, fresh[i].key).players]
        ELSE fresh[i]]

rebudget_teams(teams, old_team_budget, new_budget) ==
    [i \in 1..Len(teams) |->
        IF teams[i].budget_left = old_team_budget
        THEN [teams[i] EXCEPT !.budget_left = new_budget]
        ELSE teams[i]]

apply_settings(d, kwargs) ==
    LET old_total_teams == d.league_settings.total_teams
        old_team_budget == d.league_settings.team_budget
        settings == set_attrs(d.league_settings, kwargs)
        teams1 == IF "total_teams" \in kwargs.present
                     /\ kwargs.vals.total_teams # old_total_teams
                  THEN resize_teams(d, settings)
                  ELSE d.teams
        teams2 == IF "team_budget" \in kwargs.present
                     /\ kwargs.vals.team_budget # old_team_budget
                  THEN rebudget_teams(teams1, old_team_budget, kwargs.vals.team_budget)
                  ELSE teams1
    IN [d EXCEPT !.league_settings = settings, !.teams = teams2]

update_league_settings(S, kwargs) ==
    LET d == apply_settings(S.sdm, kwargs)
    IN Returned(write_state(session_set(S, d), d, TRUE), TRUE, "OK")

UpdateLeagueSettings(kwargs) ==
    /\ admin < MaxAdmin
    /\ Apply(update_league_settings(Cur, kwargs).st)
    /\ last' = Result("settings", update_league_settings(Cur, kwargs))
    /\ admin' = admin + 1
    /\ UNCHANGED faults

-----------------------------------------------------------------------------
(* Settings page: data collection and data reset; main page: rerun *)
SnapshotInputs ==
    {SelectSeq(FullSnapshot, LAMBDA r : r.name \in P) : P \in (SUBSET PlayerNames) \ {{}}}

collect_data(S, new_df) == Returned(save_players(S, new_df, TRUE), TRUE, "OK")

ReplacePool(new_df) ==
    /\ admin < MaxAdmin
    /\ Apply(collect_data(Cur, new_df).st)
    /\ last' = Result("collect", collect_data(Cur, new_df))
    /\ admin' = admin + 1
    /\ UNCHANGED faults

(* NBADataCollector.create_players_dataset returns a non-empty snapshot or
   raises (an empty fetch is turned into an exception); the settings page saves
   only what was returned and reports the exception otherwise. *)
create_players_dataset(fetched) ==
    IF fetched = <<>> THEN [raised |-> TRUE, df |-> <<>>]
    ELSE [raised |-> FALSE, df |-> fetched]

data_collection_section_m(S, fetched) == collect_data(S, fetched)

data_collection_section(S, fetched) ==
    IF create_players_dataset(fetched).raised THEN Returned(S, FALSE, "CollectFailed")
    ELSE collect_data(S, create_players_dataset(fetched).df)

CollectFails ==
    /\ Apply(data_collection_section(Cur, <<>>).st)
    /\ last' = Result("collect", data_collection_section(Cur, <<>>))
    /\ UNCHANGED <<admin, faults>>

reset_data(S) ==
    Returned([S EXCEPT !.players_file = <<>>,
                       !.state_file = NoFile,
                       !.sdm = NewDataManager(NoFile),
                       !.shared = FALSE],
             TRUE, "OK")

DataReset ==
    /\ admin < MaxAdmin
    /\ Apply(reset_data(Cur).st)
    /\ last' = Result("reset", reset_data(Cur))
    /\ admin' = admin + 1
    /\ UNCHANGED faults

page_run(S) == session_set(S, load_state(S.sdm, S.state_file))

PageRun ==
    /\ Apply(page_run(Cur))
    /\ UNCHANGED <<last, admin, faults>>

-----------------------------------------------------------------------------
Next ==
    \/ \E p \in PlayerInputs : StartAuction(p)
    \/ \E t \in NameInputs, a \in BidAmounts : PlaceBid(t, a)
    \/ FinalizeAuction
    \/ CancelAuction
    \/ \E o \in NameInputs, n \in NameInputs : RenameTeam(o, n)
    \/ \E kw \in KwargsInputs : UpdateLeagueSettings(kw)
    \/ \E df \in SnapshotInputs : ReplacePool(df)
    \/ CollectFails
    \/ DataReset
    \/ PageRun

Spec == Init /\ [][Next]_vars

(* The application while nobody submits the league settings form *)
NextFixed ==
    \/ \E p \in PlayerInputs : StartAuction(p)
    \/ \E t \in NameInputs, a \in BidAmounts : PlaceBid(t, a)
    \/ FinalizeAuction
    \/ CancelAuction
    \/ \E o \in NameInputs, n \in NameInputs : RenameTeam(o, n)
    \/ \E df \in SnapshotInputs : ReplacePool(df)
    \/ CollectFails
    \/ DataReset
    \/ PageRun

SpecFixed == Init /\ [][NextFixed]_vars

NextFault ==
    \/ Next
    \/ FinalizeWriteFails
    \/ FinalizeCrash

SpecFault == Init /\ [][NextFault]_vars

(* A league the settings form has configured for a longer draft: a budget that
   pays for two players and a small roster limit.  The draft then runs with
   the auction commands and further changes of the team budget alone. *)
DraftLeague ==
    [present |-> SettingKeys,
     vals |-> [team_budget |-> RichBudget, min_bid_increment |-> DefaultMinBidIncrement,
               max_players_per_team |-> SmallRoster, total_teams |-> MaxTeams]]

DraftBudgetChoices == {RichBudget - 2, RichBudget}

BudgetOnlyInputs ==
    {[present |-> SettingKeys, vals |-> [sdm.league_settings EXCEPT !.team_budget = b]] :
        b \in DraftBudgetChoices}

FreshSession ==
    [players_file |-> FullSnapshot, state_file |-> NoFile,
     adm |-> NewDataManager(NoFile), sdm |-> NewDataManager(NoFile),
     shared |-> TRUE, bid_history |-> <<>>]

InitDraft ==
    /\ players_file = update_league_settings(FreshSession, DraftLeague).st.players_file
    /\ state_file = update_league_settings(FreshSession, DraftLeague).st.state_file
    /\ adm = update_league_settings(FreshSession, DraftLeague).st.adm
    /\ sdm = update_league_settings(FreshSession, DraftLeague).st.sdm
    /\ shared = TRUE
    /\ bid_history = <<>>
    /\ last = Result("settings", update_league_settings(FreshSession, DraftLeague))
    /\ admin = 0
    /\ faults = 0

NextDraft ==
    \/ \E p \in PlayerInputs : StartAuction(p)
    \/ \E t \in NameInputs, a \in BidAmounts : PlaceBid(t, a)
    \/ FinalizeAuction
    \/ CancelAuction
    \/ \E kw \in BudgetOnlyInputs : UpdateLeagueSettings(kw)
    \/ PageRun

SpecDraft == InitDraft /\ [][NextDraft]_vars

(* A league whose budget shows the quick-bid buttons of the sidebar: the
   bidder presses one of the first four suggested amounts, or keeps the
   number input at its initial value, the next minimum bid, and bids. *)
LadderLeague ==
    [present |-> SettingKeys,
     vals |-> [team_budget |-> LadderBudget, min_bid_increment |-> DefaultMinBidIncrement,
               max_players_per_team |-> DefaultMaxPlayers, total_teams |-> MaxTeams]]

QuickBidButtons == 4

quick_bids(d) ==
    LET suggested_bids == get_suggested_bids(d).bids
    IN {get_current_auction_info(d).next_min_bid} \cup
       (IF Len(suggested_bids) > 1
        THEN {suggested_bids[i] : i \in 1..QuickBidButtons \cap 1..Len(suggested_bids)}
        ELSE {})

QuickBid(team_name) ==
    /\ adm.auction_state.is_active
    /\ \E amount \in quick_bids(adm) : PlaceBid(team_name, amount)

InitLadder ==
    /\ players_file = update_league_settings(FreshSession, LadderLeague).st.players_file
    /\ state_file = update_league_settings(FreshSession, LadderLeague).st.state_file
    /\ adm = update_league_settings(FreshSession, LadderLeague).st.adm
    /\ sdm = update_league_settings(FreshSession, LadderLeague).st.sdm
    /\ shared = TRUE
    /\ bid_history = <<>>
    /\ last = Result("settings", update_league_settings(FreshSession, LadderLeague))
    /\ admin = 0
    /\ faults = 0

NextLadder ==
    \/ \E p \in PlayerInputs : StartAuction(p)
    \/ \E t \in NameInputs : QuickBid(t)
    \/ FinalizeAuction
    \/ CancelAuction

SpecLadder == InitLadder /\ [][NextLadder]_vars

-----------------------------------------------------------------------------
(* Properties *)
Row(pool, player_name) == pool[PlayerIdx(pool, player_name)]
Budget(d, team_name) == TeamOf(d.teams, team_name).budget_left
Acquired(d, team_name) == TeamOf(d.teams, team_name).players
IsAvailable(pool, player_name) ==
    \E i \in 1..Len(pool) :
        pool[i].name = player_name /\ pool[i].draft_status = "available"
SomeoneDrafted == \E i \in 1..Len(players_file) : players_file[i].draft_status = "drafted"

(* C1: every successful finalizeAuction leaves the auctioned player drafted at
   the pre-finalize highest bid by the pre-finalize highest bidder, reduces that
   team's budget-left by exactly the bid, appends one acquisition record to it
   and returns the auction to Idle. *)
C1_FinalizeCommits ==
    LET r == finalize_current_auction(Cur, TRUE, TRUE)
        a == adm.auction_state
    IN r.ok =>
        /\ PlayerInPool(r.st.players_file, a.current_player)
        /\ Row(r.st.players_file, a.current_player).draft_status = "drafted"
        /\ Row(r.st.players_file, a.current_player).draft_price = a.highest_bid
        /\ Row(r.st.players_file, a.current_player).draft_team = a.highest_bidder
        /\ a.highest_bidder \in Keys(r.st.adm.teams)
        /\ Budget(r.st.adm, a.highest_bidder) = Budget(adm, a.highest_bidder) - a.highest_bid
        /\ Acquired(r.st.adm, a.highest_bidder) =
              Append(Acquired(adm, a.highest_bidder),
                     [name |-> a.current_player, price |-> a.highest_bid])
        /\ r.st.adm.auction_state = NewAuctionState

(* C2: after any sequence of commands every team's budget-left is >= 0. *)
C2_BudgetNonNegative ==
    /\ \A i \in 1..Len(adm.teams) : adm.teams[i].budget_left >= 0
    /\ \A i \in 1..Len(sdm.teams) : sdm.teams[i].budget_left >= 0

(* C3: placeBid never succeeds with an amount below highest-bid plus the
   league's min-bid-increment, and never succeeds while no auction is active. *)
C3_BidRespectsLeagueIncrement ==
    \A t \in NameInputs, a \in BidAmounts :
        place_bid(Cur, t, a).ok =>
            /\ adm.auction_state.is_active
            /\ a >= adm.auction_state.highest_bid + adm.league_settings.min_bid_increment

(* C4: after a finalize, whatever happens to its writes, the pool shows the
   player drafted by the winning team exactly when the ledger, as readable in
   memory and as persisted, shows that team holding the acquisition. *)
Drafted(pool, sale) ==
    \E i \in 1..Len(pool) :
        /\ pool[i].name = sale[1]
        /\ pool[i].draft_status = "drafted"
        /\ pool[i].draft_team = sale[2]
        /\ pool[i].draft_price = sale[3]

Charged(teams, sale) ==
    \E i \in 1..Len(teams) :
        /\ teams[i].key = sale[2]
        /\ \E j \in 1..Len(teams[i].players) :
              teams[i].players[j] = [name |-> sale[1], price |-> sale[3]]

C4_FinalizeAtomic ==
    (last.op = "finalize" /\ last.info # <<>>) =>
        /\ Drafted(players_file, last.info) <=> Charged(adm.teams, last.info)
        /\ state_file # NoFile =>
              (Drafted(players_file, last.info) <=> Charged(state_file[1].teams, last.info))

(* C5: cancelAuction from InAuction succeeds, leaves every pool record and every
   team (budget-left, acquired players) unchanged, resets the auction to Idle
   and empties the bid history. *)
C5_CancelFrame ==
    LET r == cancel_current_auction(Cur) IN
    adm.auction_state.is_active =>
        /\ r.ok
        /\ r.st.players_file = players_file
        /\ r.st.adm.teams = adm.teams
        /\ r.st.sdm.teams = sdm.teams
        /\ r.st.adm.league_settings = adm.league_settings
        /\ r.st.adm.auction_state = NewAuctionState
        /\ r.st.bid_history = <<>>

C5_Witness ==
    /\ last.op = "cancel" /\ last.ok
    /\ SomeoneDrafted
    /\ ~adm.auction_state.is_active

(* C6: startAuction(X) while an auction is active fails and changes nothing:
   current player, highest bid, highest bidder, bid history, pool, ledger and
   the persisted record are as before. *)
C6_StartWhileActiveRefused ==
    \A p \in PlayerInputs :
        adm.auction_state.is_active =>
            /\ ~start_player_auction(Cur, p).ok
            /\ start_player_auction(Cur, p).st = Cur

C6_Witness ==
    /\ last.op = "start" /\ ~last.ok /\ last.msg = "AlreadyActive"
    /\ adm.auction_state.is_active
    /\ bid_history # <<>>

(* C7: a successful startAuction(player) happens from Idle and yields InAuction
   with current-player = player, highest-bid = 1, no highest bidder and an empty
   bid history, and the persisted auction state equals the one in memory. *)
C7_StartEffect ==
    \A p \in PlayerInputs :
        LET r == start_player_auction(Cur, p) IN
        r.ok =>
            /\ ~adm.auction_state.is_active
            /\ r.st.adm.auction_state =
                  [current_player |-> p, highest_bid |-> 1,
                   highest_bidder |-> "", is_active |-> TRUE]
            /\ r.st.bid_history = <<>>
            /\ r.st.state_file # NoFile
            /\ NewDataManager(r.st.state_file).auction_state = r.st.adm.auction_state

C7_Witness ==
    /\ last.op = "start" /\ last.ok
    /\ adm.auction_state.is_active
    /\ adm.auction_state.highest_bid = 1
    /\ bid_history = <<>>

(* C8: startAuction fails and changes nothing (the auction stays as it was,
   nothing is written) whenever the named player is not in the pool or is not
   available. *)
C8_StartUnknownRefused ==
    \A p \in PlayerInputs :
        ~IsAvailable(players_file, p) =>
            /\ ~start_player_auction(Cur, p).ok
            /\ start_player_auction(Cur, p).st = Cur

C8_Witness ==
    /\ last.op = "start" /\ ~last.ok /\ last.msg = "UnknownOrUnavailablePlayer"
    /\ ~adm.auction_state.is_active
    /\ SomeoneDrafted

(* C9: during an auction, a bid of a known team above its budget-left fails as
   insufficient budget, also when it is below the minimum bid, and changes
   nothing; a bid equal to budget-left is not refused for budget. *)
C9_InsufficientBudget ==
    \A t \in NameInputs, a \in BidAmounts :
        (adm.auction_state.is_active /\ t \in Keys(adm.teams)) =>
            /\ a > Budget(adm, t) =>
                  /\ ~place_bid(Cur, t, a).ok
                  /\ place_bid(Cur, t, a).msg = "InsufficientBudget"
                  /\ place_bid(Cur, t, a).st = Cur
            /\ a = Budget(adm, t) => place_bid(Cur, t, a).msg # "InsufficientBudget"

C9_Witness ==
    /\ last.op = "bid" /\ ~last.ok /\ last.msg = "InsufficientBudget"
    /\ \E t \in Keys(adm.teams), a \in BidAmounts :
          /\ a > Budget(adm, t)
          /\ a < min_bid(adm)
    /\ \E t \in Keys(adm.teams) : Budget(adm, t) \in BidAmounts /\ Budget(adm, t) >= min_bid(adm)

(* C10: finalizeAuction fails and changes nothing when no auction is active or
   the active auction has no highest bidder, and an auction that has received no
   bid stays InAuction under every command but cancelAuction and a bid. *)
NoBidYet == adm.auction_state.is_active /\ bid_history = <<>>

C10_NoBidNoSale ==
    /\ (~adm.auction_state.is_active \/ adm.auction_state.highest_bidder = "") =>
          /\ ~finalize_current_auction(Cur, TRUE, TRUE).ok
          /\ finalize_current_auction(Cur, TRUE, TRUE).st = Cur
    /\ NoBidYet =>
          /\ finalize_current_auction(Cur, TRUE, TRUE).st.adm.auction_state.is_active
          /\ \A p \in PlayerInputs :
                start_player_auction(Cur, p).st.adm.auction_state.is_active
          /\ \A o \in NameInputs, n \in NameInputs :
                update_team_name(Cur, o, n).st.adm.auction_state.is_active
          /\ \A kw \in KwargsInputs :
                update_league_settings(Cur, kw).st.adm.auction_state.is_active
          /\ \A df \in SnapshotInputs : collect_data(Cur, df).st.adm.auction_state.is_active
          /\ reset_data(Cur).st.adm.auction_state.is_active
          /\ page_run(Cur).adm.auction_state.is_active

C10_Witness ==
    /\ last.op = "finalize" /\ ~last.ok /\ last.msg = "NoBidder"
    /\ NoBidYet
    /\ "X" \in Keys(adm.teams)

(* C11: for every present name A and absent name B the rename form accepts,
   renameTeam(A,B) followed by renameTeam(B,A) restores the ledger (team names
   and their order, budgets, acquired players), every pool record's draft_team
   and the highest bidder. *)
DraftTeams(pool) == [i \in 1..Len(pool) |-> pool[i].draft_team]

RoundTrip(S, A, B) == update_team_name(update_team_name(S, A, B).st, B, A)

C11_RenameRoundTrip ==
    \A A \in NameInputs, B \in NameInputs :
        team_settings_section(sdm.teams, A, B) =>
            /\ RoundTrip(Cur, A, B).ok
            /\ RoundTrip(Cur, A, B).st.sdm.teams = sdm.teams
            /\ DraftTeams(RoundTrip(Cur, A, B).st.players_file) = DraftTeams(players_file)
            /\ RoundTrip(Cur, A, B).st.sdm.auction_state.highest_bidder
                  = sdm.auction_state.highest_bidder

(* C12: a successful renameTeam(old, new) moves the team's budget-left and
   acquired players unchanged under the new name, rewrites every pool record
   whose draft_team is old and the highest bidder of the auction in flight when
   it is old, so that a finalize after the rename charges and credits the team
   under its new name. *)
RenameMovesTeam(S0, S1, old_name, new_name) ==
    /\ old_name \notin Keys(S1.sdm.teams)
    /\ new_name \in Keys(S1.sdm.teams)
    /\ TeamOf(S1.sdm.teams, new_name).name = new_name
    /\ TeamOf(S1.sdm.teams, new_name).budget_left = TeamOf(S0.sdm.teams, old_name).budget_left
    /\ TeamOf(S1.sdm.teams, new_name).players = TeamOf(S0.sdm.teams, old_name).players

RenameCascadesPool(S0, S1, old_name, new_name) ==
    /\ Len(S1.players_file) = Len(S0.players_file)
    /\ \A i \in 1..Len(S0.players_file) :
          S1.players_file[i] =
             IF S0.players_file[i].draft_team = old_name
             THEN [S0.players_file[i] EXCEPT !.draft_team = new_name]
             ELSE S0.players_file[i]

RenameCascadesAuction(S0, S1, old_name, new_name) ==
    (S0.adm.auction_state.is_active /\ S0.adm.auction_state.highest_bidder = old_name) =>
        /\ S1.adm.auction_state.highest_bidder = new_name
        /\ PlayerInPool(S0.players_file, S0.adm.auction_state.current_player) =>
              LET f == finalize_current_auction(S1, TRUE, TRUE)
                  sale == <<S0.adm.auction_state.current_player, new_name,
                            S0.adm.auction_state.highest_bid>>
              IN /\ f.ok
                 /\ Drafted(f.st.players_file, sale)
                 /\ Charged(f.st.sdm.teams, sale)
                 /\ TeamOf(f.st.sdm.teams, new_name).budget_left
                       = TeamOf(S0.sdm.teams, old_name).budget_left - sale[3]

C12_RenameCascades ==
    \A o \in NameInputs, n \in NameInputs :
        team_settings_section(sdm.teams, o, n) =>
            /\ update_team_name(Cur, o, n).ok
            /\ RenameMovesTeam(Cur, update_team_name(Cur, o, n).st, o, n)
            /\ RenameCascadesPool(Cur, update_team_name(Cur, o, n).st, o, n)
            /\ RenameCascadesAuction(Cur, update_team_name(Cur, o, n).st, o, n)

(* C13: for every state record x that save_state has written, loading x (into
   any DataManager object) and saving again writes a record equal to x in league
   settings, teams (name, budget_left, players) and auction state. *)
BlankDataManager ==
    [league_settings |-> NewLeagueSettings, teams |-> <<>>, auction_state |-> NewAuctionState]

C13_StateRoundTrip ==
    state_file # NoFile =>
        \A d \in {adm, sdm, BlankDataManager} :
            Written(load_state(d, state_file)) = state_file

C13_Witness ==
    /\ state_file # NoFile
    /\ state_file[1].auction_state.is_active
    /\ state_file[1].auction_state.highest_bidder # ""
    /\ \E i \in 1..Len(state_file[1].teams) :
          /\ state_file[1].teams[i].players # <<>>
          /\ state_file[1].teams[i].key = "X"

(* C14: shrinking the league (total_teams made smaller, the team budget left as
   it is) succeeds and keeps, for each of the first total_teams teams of the
   ledger, its name with its budget-left and acquired players unchanged. *)
ShrinkInputs ==
    {kw \in KwargsInputs :
        /\ "total_teams" \in kw.present
        /\ kw.vals.total_teams < Len(sdm.teams)
        /\ "team_budget" \in kw.present => kw.vals.team_budget = sdm.league_settings.team_budget}

KeepsTeam(teams, t) ==
    /\ t.key \in Keys(teams)
    /\ TeamOf(teams, t.key).budget_left = t.budget_left
    /\ TeamOf(teams, t.key).players = t.players

C14_ShrinkKeepsFirstTeams ==
    \A kw \in ShrinkInputs :
        /\ update_league_settings(Cur, kw).ok
        /\ Len(update_league_settings(Cur, kw).st.sdm.teams) = kw.vals.total_teams
        /\ \A i \in 1..kw.vals.total_teams :
              KeepsTeam(update_league_settings(Cur, kw).st.sdm.teams, sdm.teams[i])

(* C15: in every reachable state, in both DataManager objects and in the
   persisted record, an auction that is not active has current_player None,
   highest_bid 0 and highest_bidder ''. *)
IdleIsBlank(a) ==
    ~a.is_active => (a.current_player = None /\ a.highest_bid = 0 /\ a.highest_bidder = "")

C15_IdleIsBlank ==
    /\ IdleIsBlank(adm.auction_state)
    /\ IdleIsBlank(sdm.auction_state)
    /\ state_file # NoFile => IdleIsBlank(state_file[1].auction_state)

C15_Witness ==
    /\ last.op = "finalize" /\ last.ok /\ last.info # <<>>
    /\ ~adm.auction_state.is_active
    /\ state_file # NoFile /\ ~state_file[1].auction_state.is_active
    /\ "X" \in Keys(adm.teams)

(* C16: no command raises in any reachable state: startAuction, placeBid,
   finalizeAuction, cancelAuction, getCurrentAuctionInfo, getSuggestedBids,
   renameTeam and updateLeagueSettings all return a value. *)
Raised(r) == r.msg \in {"KeyError", "ValueError"}

C16_NoCommandRaises ==
    /\ \A p \in PlayerInputs : ~Raised(start_player_auction(Cur, p))
    /\ \A t \in NameInputs, a \in BidAmounts : ~Raised(place_bid(Cur, t, a))
    /\ ~Raised(finalize_current_auction(Cur, TRUE, TRUE))
    /\ ~Raised(cancel_current_auction(Cur))
    /\ get_current_auction_info(adm).is_active = adm.auction_state.is_active
    /\ ~get_suggested_bids(adm).raised
    /\ \A o \in NameInputs, n \in NameInputs : ~Raised(update_team_name(Cur, o, n))
    /\ \A kw \in KwargsInputs : ~Raised(update_league_settings(Cur, kw))

(* C17: when a write of players.csv or state.json fails during a finalize that
   makes a sale, what the command returns differs from what it returns when
   both writes succeed, and the state reload of the next page run still shows
   the command's effect in memory. *)
Signalled(r, r_ok) == r.ok # r_ok.ok \/ r.msg # r_ok.msg

SurvivesReload(S) == page_run(S).adm = S.adm /\ page_run(S).sdm = S.sdm

C17_WriteFailureSignalled ==
    \A pool_ok \in BOOLEAN, state_ok \in BOOLEAN :
        (~(pool_ok /\ state_ok) /\ finalize_current_auction(Cur, TRUE, TRUE).info # <<>>) =>
            /\ Signalled(finalize_current_auction(Cur, pool_ok, state_ok),
                         finalize_current_auction(Cur, TRUE, TRUE))
            /\ SurvivesReload(finalize_current_auction(Cur, pool_ok, state_ok).st)

(* C18: a stats collection that fails leaves players.csv, and everything else,
   exactly as it was; a collection that succeeds writes the snapshot the
   collector returned, whole. *)
C18_FailedCollectionKeepsPool ==
    /\ ~data_collection_section(Cur, <<>>).ok
    /\ data_collection_section(Cur, <<>>).st = Cur
    /\ \A df \in SnapshotInputs :
          /\ data_collection_section(Cur, df).ok
          /\ data_collection_section(Cur, df).st.players_file = df

C18_Witness ==
    /\ last.op = "collect" /\ ~last.ok
    /\ SomeoneDrafted

(* C19: in every step that is not a pool replacement (data collection, data
   reset) the pool keeps its rows, a drafted row stays drafted at the same
   price, an auction starts only on a player that is available, and a team
   gains an acquisition record of a player only when that player goes from
   available to drafted in that step, one record at a time. *)
Records(teams, player_name) ==
    {<<i, j>> \in (1..Len(teams)) \X (1..NumPlayers + 1) :
        j <= Len(teams[i].players) /\ teams[i].players[j].name = player_name}

PoolReplaced == admin' = admin + 1 /\ last'.op \in {"collect", "reset"}

DraftFieldsSetOnce ==
    /\ Len(players_file') = Len(players_file)
    /\ \A i \in 1..Len(players_file) :
          /\ players_file'[i].name = players_file[i].name
          /\ players_file'[i].draft_status \in {"available", "drafted"}
          /\ players_file[i].draft_status = "drafted" =>
                /\ players_file'[i].draft_status = "drafted"
                /\ players_file'[i].draft_price = players_file[i].draft_price
    /\ (~adm.auction_state.is_active /\ adm'.auction_state.is_active) =>
          IsAvailable(players_file, adm'.auction_state.current_player)
    /\ \A p \in PlayerNames :
          Cardinality(Records(adm'.teams, p)) > Cardinality(Records(adm.teams, p)) =>
              /\ Cardinality(Records(adm'.teams, p)) = Cardinality(Records(adm.teams, p)) + 1
              /\ IsAvailable(players_file, p)
              /\ ~IsAvailable(players_file', p)

C19_DraftedOnce == [][~PoolReplaced => DraftFieldsSetOnce]_vars

C19_Witness ==
    /\ Len(players_file) = NumPlayers
    /\ \A i \in 1..Len(players_file) :
          /\ players_file[i].draft_status = "drafted"
          /\ Cardinality(Records(adm.teams, players_file[i].name)) = 1
    /\ last.op = "start" /\ ~last.ok

(* C20: when updateLeagueSettings changes total_teams, the new ledger holds
   exactly the canonical team names for the new size, in order; a name that was
   in the old ledger keeps its budget-left and acquired players, and a new name
   starts with no players and the configured team budget. *)
ResizeInputs ==
    {kw \in KwargsInputs :
        /\ "total_teams" \in kw.present
        /\ kw.vals.total_teams # sdm.league_settings.total_teams}

ResizedLedger(old_teams, new_teams, settings) ==
    /\ Len(new_teams) = settings.total_teams
    /\ \A i \in 1..Len(new_teams) :
          /\ new_teams[i].key = TeamNameAt(i)
          /\ new_teams[i].name = TeamNameAt(i)
          /\ IF new_teams[i].key \in Keys(old_teams)
             THEN /\ new_teams[i].budget_left = TeamOf(old_teams, new_teams[i].key).budget_left
                  /\ new_teams[i].players = TeamOf(old_teams, new_teams[i].key).players
             ELSE /\ new_teams[i].budget_left = settings.team_budget
                  /\ new_teams[i].players = <<>>

C20_ResizeLedger ==
    \A kw \in ResizeInputs :
        /\ update_league_settings(Cur, kw).ok
        /\ ResizedLedger(sdm.teams,
                         update_league_settings(Cur, kw).st.sdm.teams,
                         update_league_settings(Cur, kw).st.sdm.league_settings)

(* C21: when updateLeagueSettings changes only the team budget, every team
   that holds no acquired player gets the new default as budget-left and every
   team that holds at least one keeps its budget-left. *)
BudgetChangeInputs ==
    {kw \in BudgetOnlyInputs \cup KwargsInputs :
        /\ "team_budget" \in kw.present
        /\ kw.vals.team_budget # sdm.league_settings.team_budget
        /\ "total_teams" \in kw.present => kw.vals.total_teams = sdm.league_settings.total_teams}

Rebudgeted(old_teams, new_teams, new_budget) ==
    /\ Len(new_teams) = Len(old_teams)
    /\ \A i \in 1..Len(old_teams) :
          /\ new_teams[i].key = old_teams[i].key
          /\ new_teams[i].players = old_teams[i].players
          /\ new_teams[i].budget_left =
                IF old_teams[i].players = <<>> THEN new_budget ELSE old_teams[i].budget_left

C21_BudgetChange ==
    \A kw \in BudgetChangeInputs :
        Rebudgeted(sdm.teams, update_league_settings(Cur, kw).st.sdm.teams,
                   kw.vals.team_budget)

(* C22: startAuction, placeBid and cancelAuction leave every team's
   budget-left as it is, renameTeam carries it over to the new name, and
   finalizeAuction never raises a budget-left and lowers only the winning
   team's, by exactly the winning bid, when it succeeds. *)
SameBudgets(old_teams, new_teams) ==
    /\ Keys(new_teams) = Keys(old_teams)
    /\ \A k \in Keys(old_teams) :
          TeamOf(new_teams, k).budget_left = TeamOf(old_teams, k).budget_left

RenamedBudgets(old_teams, new_teams, old_name, new_name) ==
    \A k \in Keys(old_teams) :
        LET k2 == IF k = old_name THEN new_name ELSE k
        IN /\ k2 \in Keys(new_teams)
           /\ TeamOf(new_teams, k2).budget_left = TeamOf(old_teams, k).budget_left

OnlyWinnerPays(old_teams, new_teams, r, a) ==
    /\ Keys(new_teams) = Keys(old_teams)
    /\ \A k \in Keys(old_teams) :
          /\ TeamOf(new_teams, k).budget_left <= TeamOf(old_teams, k).budget_left
          /\ TeamOf(new_teams, k).budget_left < TeamOf(old_teams, k).budget_left =>
                /\ r.ok
                /\ k = a.highest_bidder
                /\ TeamOf(old_teams, k).budget_left - TeamOf(new_teams, k).budget_left
                      = a.highest_bid

C22_BudgetMonotone ==
    /\ \A p \in PlayerInputs :
          /\ SameBudgets(adm.teams, start_player_auction(Cur, p).st.adm.teams)
          /\ SameBudgets(sdm.teams, start_player_auction(Cur, p).st.sdm.teams)
    /\ \A t \in NameInputs, a \in BidAmounts :
          /\ SameBudgets(adm.teams, place_bid(Cur, t, a).st.adm.teams)
          /\ SameBudgets(sdm.teams, place_bid(Cur, t, a).st.sdm.teams)
    /\ SameBudgets(adm.teams, cancel_current_auction(Cur).st.adm.teams)
    /\ SameBudgets(sdm.teams, cancel_current_auction(Cur).st.sdm.teams)
    /\ \A o \in NameInputs, n \in NameInputs :
          IF update_team_name(Cur, o, n).ok
          THEN /\ RenamedBudgets(sdm.teams, update_team_name(Cur, o, n).st.sdm.teams, o, n)
               /\ IF shared
                  THEN update_team_name(Cur, o, n).st.adm = update_team_name(Cur, o, n).st.sdm
                  ELSE SameBudgets(adm.teams, update_team_name(Cur, o, n).st.adm.teams)
          ELSE /\ SameBudgets(sdm.teams, update_team_name(Cur, o, n).st.sdm.teams)
               /\ SameBudgets(adm.teams, update_team_name(Cur, o, n).st.adm.teams)
    /\ OnlyWinnerPays(adm.teams, finalize_current_auction(Cur, TRUE, TRUE).st.adm.teams,
                      finalize_current_auction(Cur, TRUE, TRUE), adm.auction_state)
    /\ OnlyWinnerPays(sdm.teams, finalize_current_auction(Cur, TRUE, TRUE).st.sdm.teams,
                      finalize_current_auction(Cur, TRUE, TRUE), adm.auction_state)

C22_Witness ==
    /\ last.op = "finalize" /\ last.ok /\ last.info # <<>>
    /\ \E k \in Keys(adm.teams) :
          /\ k = last.info[2]
          /\ TeamOf(adm.teams, k).budget_left
                = adm.league_settings.team_budget - last.info[3]
    /\ \E k \in Keys(adm.teams) :
          TeamOf(adm.teams, k).budget_left = adm.league_settings.team_budget

(* C23: the bid history is empty right after every successful startAuction,
   finalizeAuction and cancelAuction, and whenever no auction is active. *)
C23_HistoryCleared ==
    /\ \A p \in PlayerInputs :
          start_player_auction(Cur, p).ok =>
              start_player_auction(Cur, p).st.bid_history = <<>>
    /\ cancel_current_auction(Cur).ok => cancel_current_auction(Cur).st.bid_history = <<>>
    /\ finalize_current_auction(Cur, TRUE, TRUE).ok =>
          finalize_current_auction(Cur, TRUE, TRUE).st.bid_history = <<>>
    /\ ~adm.auction_state.is_active => bid_history = <<>>

(* C24: while an auction is active getCurrentAuctionInfo returns the current
   player, the highest bid, the highest bidder and next-minimum-bid =
   highest bid + the league's min-bid-increment; when idle it returns
   inactive, no player, highest bid 0, empty bidder and next-minimum-bid 1. *)
C24_AuctionInfo ==
    LET info == get_current_auction_info(adm)
        a == adm.auction_state
    IN IF a.is_active
       THEN /\ info.is_active
            /\ info.current_player = a.current_player
            /\ info.highest_bid = a.highest_bid
            /\ info.highest_bidder = a.highest_bidder
            /\ info.next_min_bid = a.highest_bid + adm.league_settings.min_bid_increment
       ELSE info = [is_active |-> FALSE, current_player |-> None, highest_bid |-> 0,
                    highest_bidder |-> "", next_min_bid |-> 1]

(* C25: while an auction is active getSuggestedBids returns the next-minimum
   bid followed by highest bid +5, +10, +15 and +20, without duplicates,
   keeping only the amounts within the richest team's remaining budget and in
   that order; when idle it returns the empty list. *)
Candidates(d) ==
    <<get_current_auction_info(d).next_min_bid,
      d.auction_state.highest_bid + 5, d.auction_state.highest_bid + 10,
      d.auction_state.highest_bid + 15, d.auction_state.highest_bid + 20>>

Rank(d, bid) == CHOOSE i \in 1..Len(Candidates(d)) :
                    /\ Candidates(d)[i] = bid
                    /\ \A j \in 1..(i - 1) : Candidates(d)[j] # bid

Richest(d) == CHOOSE i \in 1..Len(d.teams) :
                  \A j \in 1..Len(d.teams) : d.teams[j].budget_left <= d.teams[i].budget_left

C25_SuggestedBids ==
    LET bids == get_suggested_bids(adm).bids
        cands == {Candidates(adm)[i] : i \in 1..Len(Candidates(adm))}
    IN IF ~adm.auction_state.is_active THEN bids = <<>>
       ELSE /\ {bids[i] : i \in 1..Len(bids)} =
                  {c \in cands : c <= adm.teams[Richest(adm)].budget_left}
            /\ \A i, j \in 1..Len(bids) :
                  i < j => Rank(adm, bids[i]) < Rank(adm, bids[j])

C25_Witness ==
    /\ adm.auction_state.is_active
    /\ adm.auction_state.highest_bid > OpeningBid
    /\ Len(get_suggested_bids(adm).bids) = 2
    /\ get_suggested_bids(adm).bids[2] = adm.auction_state.highest_bid + 5
    /\ adm.auction_state.highest_bid + 10 > adm.teams[Richest(adm)].budget_left

(* C26: every bid that passes the Coordinator's validation chain (active
   auction, known team, amount within the budget left, amount at least the
   highest bid plus the minimum increment) is accepted by the State Machine's
   own bid check, so the generic 'bid failed' outcome never occurs, and every
   successful bid sets the highest bid to the amount and the highest bidder to
   the team. *)
PassesChain(S, team_name, amount) ==
    /\ S.adm.auction_state.is_active
    /\ team_name \in Keys(S.adm.teams)
    /\ ~budget_short(S.adm, team_name, amount)
    /\ ~(amount < min_bid(S.adm))

C26_ChainImpliesAccepted ==
    \A t \in NameInputs, a \in BidAmounts :
        /\ PassesChain(Cur, t, a) => dm_bid_accepted(adm, t, a)
        /\ place_bid(Cur, t, a).msg # "BidFailed"
        /\ place_bid(Cur, t, a).ok =>
              /\ PassesChain(Cur, t, a)
              /\ place_bid(Cur, t, a).st.adm.auction_state.highest_bid = a
              /\ place_bid(Cur, t, a).st.adm.auction_state.highest_bidder = t

C26_Witness ==
    /\ last.op = "bid" /\ last.ok
    /\ bid_history # <<>>
    /\ adm.auction_state.highest_bid = bid_history[Len(bid_history)].amount
    /\ adm.auction_state.highest_bidder = bid_history[Len(bid_history)].team_name
    /\ adm.auction_state.highest_bid >= OpeningBid + AmMinBidIncrement

(* C27: after any sequence of commands no team holds more acquired players
   than the league's max-players-per-team. *)
RosterWithinLimit(d) ==
    \A i \in 1..Len(d.teams) :
        Len(d.teams[i].players) <= d.league_settings.max_players_per_team

C27_RosterLimit == RosterWithinLimit(adm) /\ RosterWithinLimit(sdm)

(* C28: renameTeam(old, new) fails when old is not a team of the Ledger or
   when new already is one (new = old included), and a failed rename leaves
   the Ledger, the Pool, the AuctionState and the persisted record unchanged. *)
RenameMustFail(d, old_name, new_name) ==
    old_name \notin Keys(d.teams) \/ new_name \in Keys(d.teams)

C28_RenameRefused ==
    \A old_name, new_name \in NameInputs :
        /\ RenameMustFail(sdm, old_name, new_name) =>
              ~update_team_name(Cur, old_name, new_name).ok
        /\ ~update_team_name(Cur, old_name, new_name).ok =>
              update_team_name(Cur, old_name, new_name).st = Cur

C28_Witness ==
    /\ last.op = "rename" /\ last.ok
    /\ state_file # NoFile
    /\ \E old_name, new_name \in NameInputs :
          /\ old_name \notin Keys(sdm.teams)
          /\ new_name \notin Keys(sdm.teams)
          /\ ~update_team_name(Cur, old_name, new_name).ok
    /\ \E old_name, new_name \in Keys(sdm.teams) :
          /\ old_name # new_name
          /\ ~update_team_name(Cur, old_name, new_name).ok
    /\ \E t \in Keys(sdm.teams) : ~update_team_name(Cur, t, t).ok

(* DataManager.search_players.  A name is the sequence of its characters; the
   query is handed to str.contains(query, case=False, na=False), which
   searches it as a regular expression: "." matches any character and an
   unclosed "(" is rejected by the regex compiler with an exception. *)
Letters(name) ==
    CASE name = "P1" -> <<"P", "1">>
      [] name = "P2" -> <<"P", "2">>
      [] name = "P3" -> <<"P", "3">>
      [] name = "P4" -> <<"P", "4">>

lower(c) == IF c = "P" THEN "p" ELSE c

QueryChars == {"p", "P", "1", ".", "("}

MaxQuery == 2

Queries == UNION {[1..n -> QueryChars] : n \in 0..MaxQuery}

LimitChoices == 0..NumPlayers

regex_compiles(query) == \A i \in 1..Len(query) : query[i] # "("

regex_search(query, text) ==
    \E off \in 0..(Len(text) - Len(query)) :
        \A i \in 1..Len(query) :
            query[i] = "." \/ lower(query[i]) = lower(text[off + i])

head(df, limit) == SubSeq(df, 1, IF limit < Len(df) THEN limit ELSE Len(df))

search_players(pool, query, limit) ==
    LET available_players == get_available_players(pool)
        hit(r) == regex_search(query, Letters(r.name))
    IN IF available_players = <<>> THEN [raised |-> FALSE, rows |-> <<>>]
       ELSE IF ~regex_compiles(query) THEN [raised |-> TRUE, rows |-> <<>>]
       ELSE [raised |-> FALSE, rows |-> head(SelectSeq(available_players, hit), limit)]

(* C29: searchPlayers(query, limit) returns exactly the first `limit` players,
   in pool order, among the available players whose name contains the query
   as a case-insensitive substring; never a drafted player and never more
   than `limit` players. *)
ContainsIgnoreCase(text, query) ==
    \E off \in 0..(Len(text) - Len(query)) :
        \A i \in 1..Len(query) : lower(query[i]) = lower(text[off + i])

Matching(pool, query) ==
    SelectSeq(pool, LAMBDA r : /\ r.draft_status = "available"
                               /\ ContainsIgnoreCase(Letters(r.name), query))

C29_SearchPlayers ==
    \A query \in Queries, limit \in LimitChoices :
        LET found == search_players(players_file, query, limit)
        IN /\ ~found.raised
           /\ found.rows = head(Matching(players_file, query), limit)
           /\ Len(found.rows) <= limit
           /\ \A i \in 1..Len(found.rows) : found.rows[i].draft_status = "available"

(* A fresh process: DataManager() loads state.json, the AuctionManager is
   built on it with an empty bid history (app.py session initialisation). *)
Restart(S) ==
    [S EXCEPT !.adm = NewDataManager(S.state_file),
              !.sdm = NewDataManager(S.state_file),
              !.shared = TRUE,
              !.bid_history = <<>>]

SameAfterRestart(S, d) == Restart(S).adm = d

AuctionCommandResults(S) ==
    {start_player_auction(S, p) : p \in PlayerInputs}
    \cup {place_bid(S, t, a) : t \in NameInputs, a \in BidAmounts}
    \cup {finalize_current_auction(S, TRUE, TRUE), cancel_current_auction(S)}

SessionCommandResults(S) ==
    {update_team_name(S, A, B) :
        A \in {x \in NameInputs : \E y \in NameInputs : team_settings_section(S.sdm.teams, x, y)},
        B \in {y \in NameInputs : \E x \in NameInputs : team_settings_section(S.sdm.teams, x, y)}}
    \cup {update_league_settings(S, kw) : kw \in KwargsInputs}

MinimumBidRule(S) ==
    \A t \in NameInputs, a \in BidAmounts :
        place_bid(S, t, a).ok =>
            a >= S.adm.auction_state.highest_bid + S.adm.league_settings.min_bid_increment

(* C30: after every successful mutating command whose writes succeed, a fresh
   process that loads the persisted record sees the same league settings,
   Ledger and AuctionState as the in-memory state; a restart during an
   auction resumes it with the same player, highest bid and highest bidder,
   and every bid accepted after the restart satisfies the minimum-bid rule. *)
C30_RestartResumes ==
    /\ \A r \in AuctionCommandResults(Cur) : r.ok => SameAfterRestart(r.st, r.st.adm)
    /\ \A r \in SessionCommandResults(Cur) : r.ok => SameAfterRestart(r.st, r.st.sdm)
    /\ \A r \in AuctionCommandResults(Cur) \cup SessionCommandResults(Cur) :
          (r.ok /\ r.st.adm.auction_state.is_active) =>
              /\ Restart(r.st).adm.auction_state = r.st.adm.auction_state
              /\ MinimumBidRule(Restart(r.st))

(* C31: in every reachable state the Pool and the Ledger agree: a pool record
   is drafted with draft-team T and draft-price p exactly when T is a team of
   the Ledger and T's acquired players hold one record with that player's
   name and price p. *)
PoolSays(pool, n, T, p) ==
    \E i \in 1..Len(pool) :
        /\ pool[i].name = n /\ pool[i].draft_status = "drafted"
        /\ pool[i].draft_team = T /\ pool[i].draft_price = p

LedgerSays(d, n, T, p) ==
    /\ T \in Keys(d.teams)
    /\ Cardinality({k \in 1..Len(TeamOf(d.teams, T).players) :
                       TeamOf(d.teams, T).players[k] = [name |-> n, price |-> p]}) = 1

PoolAgrees(d) ==
    \A n \in PlayerNames, T \in NameInputs \cup Keys(d.teams) \cup {FallbackName(1)},
       p \in 0..(RichBudget + 1) :
        PoolSays(players_file, n, T, p) <=> LedgerSays(d, n, T, p)

C31_PoolLedgerAgree == PoolAgrees(adm) /\ PoolAgrees(sdm)

(* C32: in every reachable state in which the league settings have not been
   changed, each team's budget-left plus the sum of the prices of its acquired
   players equals the configured team budget. *)
RECURSIVE SumPrices(_)
SumPrices(players) ==
    IF players = <<>> THEN 0 ELSE players[1].price + SumPrices(Tail(players))

Conserved(d) ==
    \A i \in 1..Len(d.teams) :
        d.teams[i].budget_left + SumPrices(d.teams[i].players)
            = d.league_settings.team_budget

C32_BudgetConservation == Conserved(adm) /\ Conserved(sdm)

C32_Witness ==
    /\ last.op = "finalize" /\ last.ok
    /\ \E i \in 1..Len(adm.teams) :
          /\ adm.teams[i].players # <<>>
          /\ SumPrices(adm.teams[i].players) > OpeningBid
          /\ adm.teams[i].budget_left < adm.league_settings.team_budget

(* C33: in every reachable state with an active auction the highest bid is at
   least 1; the highest bidder is empty exactly when the highest bid is 1; and
   a non-empty highest bidder is a team of the Ledger whose budget-left is at
   least the highest bid. *)
BidderSound(d) ==
    d.auction_state.is_active =>
        /\ d.auction_state.highest_bid >= 1
        /\ d.auction_state.highest_bidder = "" <=> d.auction_state.highest_bid = 1
        /\ d.auction_state.highest_bidder # "" =>
              /\ d.auction_state.highest_bidder \in Keys(d.teams)
              /\ Budget(d, d.auction_state.highest_bidder) >= d.auction_state.highest_bid

C33_BidderSound == BidderSound(adm) /\ BidderSound(sdm)

(* C34: after the settings page's data reset the pool is empty, the Ledger is
   fresh (every team at the full default budget with no players) and the
   auction is Idle, and the auction commands of the Coordinator act on this
   fresh state: the pre-reset Ledger and AuctionState do not reappear in
   memory or in the persisted record. *)
FreshLedger(d) ==
    /\ d.teams = _initialize_teams(NewLeagueSettings, NewLeagueSettings.team_budget)
    /\ d.auction_state = NewAuctionState

C34_ResetIsFresh ==
    last.op = "reset" =>
        /\ players_file = <<>>
        /\ FreshLedger(sdm)
        /\ FreshLedger(adm)
        /\ \A r \in AuctionCommandResults(Cur) :
              r.ok => FreshLedger(Restart(r.st).adm)

(* C35: while an auction is active the amounts of the bid history are strictly
   increasing, the history is empty exactly when the highest bidder is empty,
   and the last entry's team and amount are the AuctionState's highest bidder
   and highest bid, also after a rename of the bidding team. *)
Increasing(history) ==
    \A i, j \in 1..Len(history) : i < j => history[i].amount < history[j].amount

C35_HistoryMatchesAuction ==
    adm.auction_state.is_active =>
        /\ Increasing(bid_history)
        /\ bid_history = <<>> <=> adm.auction_state.highest_bidder = ""
        /\ bid_history # <<>> =>
              /\ bid_history[Len(bid_history)].team_name = adm.auction_state.highest_bidder
              /\ bid_history[Len(bid_history)].amount = adm.auction_state.highest_bid

(* C36: within one auction every successful bid strictly raises the highest
   bid, the highest bid never exceeds the largest budget-left of the Ledger,
   and from every state with an active auction the auction can be brought
   back to Idle: by cancelAuction, or by finalizeAuction once a bidder
   exists. *)
BidsRaise(S) ==
    \A t \in NameInputs, a \in BidAmounts :
        place_bid(S, t, a).ok =>
            /\ place_bid(S, t, a).st.adm.auction_state.highest_bid
                  > S.adm.auction_state.highest_bid
            /\ place_bid(S, t, a).st.adm.auction_state.highest_bid
                  <= max_budget(place_bid(S, t, a).st.adm)

CanReturnToIdle(S) ==
    /\ cancel_current_auction(S).ok
    /\ ~cancel_current_auction(S).st.adm.auction_state.is_active
    /\ S.adm.auction_state.highest_bidder # "" =>
          /\ finalize_current_auction(S, TRUE, TRUE).ok
          /\ ~finalize_current_auction(S, TRUE, TRUE).st.adm.auction_state.is_active

C36_AuctionTerminates ==
    adm.auction_state.is_active =>
        /\ BidsRaise(Cur)
        /\ adm.auction_state.highest_bid <= max_budget(adm)
        /\ CanReturnToIdle(Cur)

(* AuctionManager.get_affordable_teams, validate_bid_amount *)
get_affordable_teams_m(d, amount) ==
    {d.teams[i].key : i \in {k \in 1..Len(d.teams) : d.teams[k].budget_left > amount}}

get_affordable_teams(d, amount) ==
    {d.teams[i].key : i \in {k \in 1..Len(d.teams) : d.teams[k].budget_left >= amount}}

validate_bid_amount(d, amount) ==
    IF ~d.auction_state.is_active THEN [ok |-> FALSE, msg |-> "NoActiveAuction"]
    ELSE IF amount <= 0 THEN [ok |-> FALSE, msg |-> "NotPositive"]
    ELSE IF amount < min_bid(d) THEN [ok |-> FALSE, msg |-> "BidTooLow"]
    ELSE IF get_affordable_teams(d, amount) = {} THEN [ok |-> FALSE, msg |-> "NoTeamCanAfford"]
    ELSE [ok |-> TRUE, msg |-> "OK"]

AmountInputs == 0..(DefaultTeamBudget + 1)

(* C37: validate_bid_amount(amount) reports a valid amount exactly when there
   is at least one team for which placeBid(team, amount) would succeed in the
   current state. *)
C37_ValidateMatchesPlaceBid ==
    \A a \in AmountInputs :
        validate_bid_amount(adm, a).ok
            <=> \E t \in NameInputs \cup Keys(adm.teams) : place_bid(Cur, t, a).ok

C37_Witness ==
    /\ adm.auction_state.is_active
    /\ \E a \in AmountInputs : validate_bid_amount(adm, a).ok
    /\ \E a \in AmountInputs : validate_bid_amount(adm, a).msg = "NoTeamCanAfford"
    /\ \E a \in AmountInputs : validate_bid_amount(adm, a).msg = "BidTooLow"

(* C38: in every reachable state the Ledger has exactly total-teams teams, the
   team names are pairwise distinct, and each Team record's name field equals
   the key it is stored under. *)
LedgerWellFormed(d) ==
    /\ Len(d.teams) = d.league_settings.total_teams
    /\ \A i, j \in 1..Len(d.teams) :
          i # j => /\ d.teams[i].key # d.teams[j].key
                   /\ d.teams[i].name # d.teams[j].name
    /\ \A i \in 1..Len(d.teams) : d.teams[i].name = d.teams[i].key

C38_LedgerWellFormed ==
    /\ LedgerWellFormed(adm)
    /\ LedgerWellFormed(sdm)
    /\ LedgerWellFormed(NewDataManager(state_file))

C38_Witness ==
    /\ last.op = "rename" /\ last.ok
    /\ state_file # NoFile
    /\ Len(sdm.teams) < NewLeagueSettings.total_teams
    /\ \E i \in 1..Len(sdm.teams) :
          sdm.teams[i].key \notin {TeamNameAt(k) : k \in 1..MaxTeams}

(* DataManager.get_team_summary: total_spent is computed from the literal 200,
   the default team budget, here at the model's scale *)
SummaryBudget == DefaultTeamBudget

get_team_summary(d) ==
    [i \in 1..Len(d.teams) |->
        [key |-> d.teams[i].key,
         budget_left |-> d.teams[i].budget_left,
         total_spent |-> SummaryBudget - d.teams[i].budget_left,
         player_count |-> Len(d.teams[i].players),
         players |-> d.teams[i].players]]

(* C39: get_team_summary reports for every team a total_spent equal to the sum
   of the prices of its acquired players and a player_count equal to the
   number of its acquisition records, for every configured team budget. *)
SummaryRight(d) ==
    \A i \in 1..Len(d.teams) :
        /\ get_team_summary(d)[i].total_spent = SumPrices(d.teams[i].players)
        /\ get_team_summary(d)[i].player_count = Len(d.teams[i].players)

C39_TeamSummary == SummaryRight(adm) /\ SummaryRight(sdm)

====
